---- MODULE Spec2Model ----
(***************************************************************************)
(* Flashcard review scheduler (scheduler/services/reviews.py,              *)
(* scheduler/data/repos.py, scheduler/domain/logic.py).                    *)
(*                                                                         *)
(* The store is modelled as the committed contents of the two tables       *)
(* (CardSchedule, ReviewLog) plus the row lock taken by SELECT ... FOR     *)
(* UPDATE.  No view or service opens a transaction around record_review,   *)
(* so every ORM statement outside the `with transaction.atomic()` block    *)
(* of get_or_create_schedule_for_update commits on its own (Django's       *)
(* autocommit), and the row lock is released when that block exits.        *)
(* Each request is a process whose pc is its position in record_review.    *)
(*                                                                         *)
(* Specifications: Spec (overlapping reviews of one card), SpecFail (with  *)
(* store failures and client retries), SpecSeq (one client, one review at  *)
(* a time), SpecDue (reviews of several users' cards and due-cards         *)
(* queries), SpecPure (schedule_next called on its own), SpecPairs          *)
(* (overlapping reviews of several cards and users), SpecLive and          *)
(* SpecPairsLive (Spec and SpecPairs with fairly scheduled workers).       *)
(***************************************************************************)
EXTENDS Integers, Sequences, FiniteSets, Bags, TLC

\* ---------------------------------------------------------------- bounds
NReq == 2
MaxNow == 1
MaxFail == 1
\* reviews a client issues one after another
MaxSeq == 6
\* schedule_next called directly: prior intervals 0..MaxSmall and those within
\* Margin of each capping threshold
MaxSmall == 10
Margin == 2

\* ------------------------------------------------------- input domains
\* user, card and key ids are opaque; small integers stand for them
Users == {1, 2}
Cards == {1, 2}
Keys == {1, 2}
\* the (user, card) that the clients of Spec and SpecFail review
OneUser == {1}
OneCard == {1}
\* the key of the client that also queries the due cards
OneKey == {1}
Ratings == 0..2
Pairs == Users \X Cards

\* ------------------------------------------------- scheduler/config.py
MAX_INTERVAL_SECONDS == 365 * 24 * 3600
RETRY_SECONDS == 60
FIRST_INTERVAL == [r \in {1, 2} |-> IF r = 1 THEN 24 * 3600 ELSE 4 * 24 * 3600]
\* GROWTH = {1: 1.6, 2: 2.5}, held in tenths: for every integer L in
\* 0..MAX_INTERVAL_SECONDS, int(L * 1.6) = (L * 16) \div 10 and
\* int(L * 2.5) = (L * 25) \div 10 in IEEE-754 double arithmetic.
GROWTH == [r \in {1, 2} |-> IF r = 1 THEN 16 ELSE 25]

\* ------------------------------------------ scheduler/domain/enums.py
DONT_REMEMBER == 0

Min(a, b) == IF a <= b THEN a ELSE b
Max(a, b) == IF a >= b THEN a ELSE b

\* ------------------------------------------ scheduler/domain/logic.py
\* (variant: a forgotten card keeps its interval unless it is new)
schedule_next_keep(rating, last_interval_seconds, is_first) ==
    IF rating = DONT_REMEMBER
    THEN (IF is_first THEN RETRY_SECONDS ELSE last_interval_seconds)
    ELSE IF is_first THEN Min(FIRST_INTERVAL[rating], MAX_INTERVAL_SECONDS)
    ELSE LET proposed == (last_interval_seconds * GROWTH[rating]) \div 10
         IN  Max(Min(proposed, MAX_INTERVAL_SECONDS), last_interval_seconds)

\* (variant: the growth is not capped)
schedule_next_uncapped(rating, last_interval_seconds, is_first) ==
    IF rating = DONT_REMEMBER THEN RETRY_SECONDS
    ELSE IF is_first THEN FIRST_INTERVAL[rating]
    ELSE LET proposed == (last_interval_seconds * GROWTH[rating]) \div 10
         IN  Max(proposed, last_interval_seconds)

\* (variant: every remembered review is scheduled like a first one)
schedule_next_first_always(rating, last_interval_seconds, is_first) ==
    IF rating = DONT_REMEMBER THEN RETRY_SECONDS
    ELSE Min(FIRST_INTERVAL[rating], MAX_INTERVAL_SECONDS)

\* (variant: the product is rounded to nearest, not truncated)
schedule_next_rounded(rating, last_interval_seconds, is_first) ==
    IF rating = DONT_REMEMBER THEN RETRY_SECONDS
    ELSE IF is_first THEN Min(FIRST_INTERVAL[rating], MAX_INTERVAL_SECONDS)
    ELSE LET proposed == (last_interval_seconds * GROWTH[rating] + 5) \div 10
         IN  Max(Min(proposed, MAX_INTERVAL_SECONDS), last_interval_seconds)

schedule_next(rating, last_interval_seconds, is_first) ==
    IF rating = DONT_REMEMBER THEN RETRY_SECONDS
    ELSE IF is_first THEN Min(FIRST_INTERVAL[rating], MAX_INTERVAL_SECONDS)
    ELSE LET proposed == (last_interval_seconds * GROWTH[rating]) \div 10
         IN  Max(Min(proposed, MAX_INTERVAL_SECONDS), last_interval_seconds)

\* ------------------------------------------------------------- state
VARIABLES
    sched,   \* CardSchedule table: Pairs -> row (exists = FALSE: no row)
    logs,    \* ReviewLog table: set of rows
    lock,    \* Pairs -> TRUE while a transaction holds the row lock
    reqs,    \* bag of requests; each holds its pc, its locals and its result
    now,     \* the clock read by timezone.now()
    fails,   \* number of store calls that have raised so far
    call,    \* a direct invocation of schedule_next: arguments and return
    due      \* the latest due-cards query and its response

vars == <<sched, logs, lock, reqs, now, fails, call, due>>

NoRow == [exists |-> FALSE, streak |-> 0, last_interval_seconds |-> 0,
          next_review_at |-> 0]
NoResult == [next_review_at |-> 0, interval_seconds |-> 0,
             was_idempotent |-> FALSE]

\* Requests are the workers' invocations of record_review.  Workers are
\* anonymous, so the requests form a bag: two requests in the same position
\* with the same arguments and locals are interchangeable.
Requests == BagToSet(reqs)
NumRequests == BagCardinality(reqs)
PairOf(rq) == <<rq.user_id, rq.card_id>>
Replace(rq, nq) == (reqs (-) SetToBag({rq})) (+) SetToBag({nq})

\* pc: "get" before the locked fetch, "create" after DoesNotExist, "locked"
\* inside the atomic block holding the row lock, "save" before sched.save,
\* "persist" before persist_review, "done" returned, "failed" raised.
\* via: the return statement taken, "fast" (line 31) or "persist" (line 60).
\* is_first: the flag computed at line 35 (FALSE until then).
NewRequest(u, c, rating, key) ==
    [pc |-> "new", user_id |-> u, card_id |-> c, rating |-> rating,
     idempotency_key |-> key, sched |-> NoRow, created |-> FALSE,
     is_first |-> FALSE, next_interval |-> 0, next_dt |-> 0, res |-> NoResult,
     via |-> "none", attempts |-> 0, err |-> "none"]

\* no direct invocation of schedule_next / no due-cards query so far
NoCall == [rating |-> 0, last_interval_seconds |-> 0, is_first |-> FALSE,
           returned |-> FALSE, ret |-> 0]
NoDue == [asked |-> FALSE, user_id |-> 0, until |-> 0, card_ids |-> {}]

\* the empty store: both tables empty, no lock held, no request in flight
EmptyStore ==
    /\ sched = [p \in Pairs |-> NoRow]
    /\ logs = {}
    /\ lock = [p \in Pairs |-> FALSE]
    /\ reqs = EmptyBag
    /\ now = 0
    /\ fails = 0

Init ==
    /\ EmptyStore
    /\ call = NoCall
    /\ due = NoDue

\* ------------------------------------------------ scheduler/data/models.py
NoLog == [id |-> 0, user_id |-> 0, card_id |-> 0, rating |-> 0,
          idempotency_key |-> 0, created_at |-> 0, next_review_at |-> 0,
          next_interval_seconds |-> 0]

\* (variant: rows are looked up by the key alone)
LogsOfKeyOnly(u, c, k) == {l \in logs : l.idempotency_key = k}

LogsOf(u, c, k) ==
    {l \in logs : l.user_id = u /\ l.card_id = c /\ l.idempotency_key = k}

\* (variant: the constraint on the triple is missing)
ReviewLogNoConstraint(u, c, k) == FALSE

\* ReviewLog.Meta.unique_together: an insert of (u, c, k) is refused while a
\* row with that triple exists.
ReviewLogUniqueViolation(u, c, k) == LogsOf(u, c, k) # {}

\* CardSchedule.Meta.unique_together: one row per (user_id, card_id).
CardScheduleUniqueViolation(p) == sched[p].exists

\* ------------------------------------------------- scheduler/data/repos.py
\* filter(...).first(): the matching row with the smallest primary key.
get_existing_idempotent(u, c, k) ==
    IF LogsOf(u, c, k) = {} THEN NoLog
    ELSE CHOOSE l \in LogsOf(u, c, k) : \A m \in LogsOf(u, c, k) : l.id <= m.id

NewLog(u, c, rating, k, next_review_at, next_interval_seconds) ==
    [id |-> Cardinality(logs) + 1, user_id |-> u, card_id |-> c,
     rating |-> rating, idempotency_key |-> k, created_at |-> now,
     next_review_at |-> next_review_at,
     next_interval_seconds |-> next_interval_seconds]

\* persist_review: the row it returns, the duplicate flag, and whether a row
\* was inserted.
persist_review(u, c, rating, k, next_review_at, next_interval_seconds) ==
    IF ReviewLogUniqueViolation(u, c, k)
    THEN [log |-> get_existing_idempotent(u, c, k), was_idempotent |-> TRUE,
          inserted |-> FALSE]
    ELSE [log |-> NewLog(u, c, rating, k, next_review_at, next_interval_seconds),
          was_idempotent |-> FALSE, inserted |-> TRUE]

\* ------------------------------------------ scheduler/services/reviews.py
\* (variant: the early return is never taken)
FastPathNever(existing) == FALSE

\* `if existing:` (line 24)
FastPathHit(existing) == existing.id # 0

\* the tuple returned at line 31 / line 60
Result(log, was_idempotent) ==
    [next_review_at |-> log.next_review_at,
     interval_seconds |-> log.next_interval_seconds,
     was_idempotent |-> was_idempotent]

\* Ids carry no meaning beyond equality, so a request either reuses an id
\* already seen or takes the next unused one.
UsedUsers == {rq.user_id : rq \in Requests}
UsedCards == {rq.card_id : rq \in Requests}
UsedKeys == {rq.idempotency_key : rq \in Requests}

\* (variant: a replay answers with values computed from its own rating)
FastPathRecompute(rq) ==
    LET existing == get_existing_idempotent(rq.user_id, rq.card_id,
                                            rq.idempotency_key)
        last == sched[<<rq.user_id, rq.card_id>>].last_interval_seconds
        interval == schedule_next(rq.rating, last, last = 0)
    IN  IF FastPathHit(existing)
        THEN [rq EXCEPT !.pc = "done", !.via = "fast",
                        !.res = [next_review_at |-> now + interval,
                                 interval_seconds |-> interval,
                                 was_idempotent |-> TRUE]]
        ELSE [rq EXCEPT !.pc = "get"]

\* record_review lines 23-31, run on the request as it arrives: the lock-free
\* idempotency lookup and the early return.
FastPath(rq) ==
    LET existing == get_existing_idempotent(rq.user_id, rq.card_id,
                                            rq.idempotency_key)
    IN  IF FastPathHit(existing)
        THEN [rq EXCEPT !.pc = "done", !.via = "fast",
                        !.res = Result(existing, TRUE)]
        ELSE [rq EXCEPT !.pc = "get"]

\* A client posts a review (ReviewView.post after validation) and the
\* request runs up to the end of the fast path.
ReviewReceived(u, c, rating, key) ==
    /\ NumRequests < NReq
    /\ u <= Cardinality(UsedUsers) + 1
    /\ c <= Cardinality(UsedCards) + 1
    /\ key <= Cardinality(UsedKeys) + 1
    /\ reqs' = reqs (+) SetToBag({FastPath(NewRequest(u, c, rating, key))})
    /\ UNCHANGED <<sched, logs, lock, now, fails, call, due>>

\* The wall clock advances (time is counted from the first request).
Tick ==
    /\ now < MaxNow
    /\ reqs # EmptyBag
    /\ now' = now + 1
    /\ UNCHANGED <<sched, logs, lock, reqs, fails, call, due>>

\* get_or_create_schedule_for_update lines 10-16: inside the atomic block,
\* SELECT ... FOR UPDATE of the committed row; it waits while another
\* transaction holds the row lock, and raises DoesNotExist when no committed
\* row is visible.
SelectForUpdate(rq) ==
    /\ rq.pc = "get"
    /\ IF sched[PairOf(rq)].exists
       THEN /\ ~lock[PairOf(rq)]
            /\ lock' = [lock EXCEPT ![PairOf(rq)] = TRUE]
            /\ reqs' = Replace(rq, [rq EXCEPT !.pc = "locked",
                                              !.sched = sched[PairOf(rq)]])
       ELSE /\ reqs' = Replace(rq, [rq EXCEPT !.pc = "create"])
            /\ UNCHANGED lock
    /\ UNCHANGED <<sched, logs, now, fails, call, due>>

\* get_or_create_schedule_for_update lines 17-24: INSERT of the new row and
\* the locked re-fetch by pk.  The INSERT waits while another transaction's
\* uncommitted INSERT of the same key is pending, and raises IntegrityError
\* (not caught anywhere) once a committed row with that key exists.
CreateSchedule(rq) ==
    /\ rq.pc = "create"
    /\ IF CardScheduleUniqueViolation(PairOf(rq))
       THEN /\ reqs' = Replace(rq, [rq EXCEPT !.pc = "failed",
                                              !.err = "IntegrityError"])
            /\ UNCHANGED lock
       ELSE /\ ~lock[PairOf(rq)]
            /\ lock' = [lock EXCEPT ![PairOf(rq)] = TRUE]
            /\ reqs' = Replace(rq, [rq EXCEPT
                    !.pc = "locked",
                    !.created = TRUE,
                    !.sched = [exists |-> TRUE, streak |-> 0,
                               last_interval_seconds |-> 0,
                               next_review_at |-> now]])
    /\ UNCHANGED <<sched, logs, now, fails, call, due>>

\* (variant: the first-review flag is never set)
MutateNeverFirst(rq) ==
    LET next_interval == schedule_next(rq.rating,
                                       rq.sched.last_interval_seconds, FALSE)
        next_dt == now + next_interval
    IN  [rq EXCEPT !.is_first = FALSE,
                   !.next_interval = next_interval,
                   !.next_dt = next_dt,
                   !.sched = [rq.sched EXCEPT
                       !.last_interval_seconds = next_interval,
                       !.next_review_at = next_dt,
                       !.streak = IF rq.rating = 0 THEN 0
                                  ELSE rq.sched.streak + 1]]

\* The mutation of the fetched object, record_review lines 35-44.
Mutate(rq) ==
    LET is_first == (rq.sched.last_interval_seconds = 0)
        next_interval == schedule_next(rq.rating,
                                       rq.sched.last_interval_seconds, is_first)
        next_dt == now + next_interval
    IN  [rq EXCEPT !.is_first = is_first,
                   !.next_interval = next_interval,
                   !.next_dt = next_dt,
                   !.sched = [rq.sched EXCEPT
                       !.last_interval_seconds = next_interval,
                       !.next_review_at = next_dt,
                       !.streak = IF rq.rating = 0 THEN 0
                                  ELSE rq.sched.streak + 1]]

\* get_or_create_schedule_for_update line 25 and record_review lines 35-44:
\* leaving the atomic block commits (a created row becomes visible) and
\* releases the row lock; the computation that follows touches only the
\* fetched object and the clock.
AtomicExit(rq) ==
    /\ rq.pc = "locked"
    /\ sched' = IF rq.created
                THEN [sched EXCEPT ![PairOf(rq)] = rq.sched]
                ELSE sched
    /\ lock' = [lock EXCEPT ![PairOf(rq)] = FALSE]
    /\ reqs' = Replace(rq, [Mutate(rq) EXCEPT !.pc = "save", !.created = FALSE])
    /\ UNCHANGED <<logs, now, fails, call, due>>

\* record_review line 45: sched.save(update_fields=[...]), an UPDATE by pk of
\* the three fields; it commits at once and waits for a held row lock.
SaveSchedule(rq) ==
    /\ rq.pc = "save"
    /\ ~lock[PairOf(rq)]
    /\ sched' = [sched EXCEPT ![PairOf(rq)] =
            [@ EXCEPT !.last_interval_seconds = rq.sched.last_interval_seconds,
                      !.next_review_at = rq.sched.next_review_at,
                      !.streak = rq.sched.streak]]
    /\ reqs' = Replace(rq, [rq EXCEPT !.pc = "persist"])
    /\ UNCHANGED <<logs, lock, now, fails, call, due>>

\* (variant: a duplicate overwrites the stored row, as update_or_create would)
PersistReviewUpsert(rq) ==
    /\ rq.pc = "persist"
    /\ LET row == NewLog(rq.user_id, rq.card_id, rq.rating,
                         rq.idempotency_key, rq.next_dt, rq.next_interval)
           old == LogsOf(rq.user_id, rq.card_id, rq.idempotency_key)
           kept == IF old = {} THEN row
                   ELSE [row EXCEPT !.id = get_existing_idempotent(
                            rq.user_id, rq.card_id, rq.idempotency_key).id]
       IN  /\ logs' = (logs \ old) \cup {kept}
           /\ reqs' = Replace(rq, [rq EXCEPT
                   !.pc = "done", !.via = "persist", !.sched = NoRow,
                   !.next_interval = 0, !.next_dt = 0,
                   !.res = Result(kept, old # {})])
    /\ UNCHANGED <<sched, lock, now, fails, call, due>>

\* record_review lines 48-60: persist_review and the return.
PersistReview(rq) ==
    /\ rq.pc = "persist"
    /\ LET out == persist_review(rq.user_id, rq.card_id, rq.rating,
                                 rq.idempotency_key, rq.next_dt, rq.next_interval)
       IN  /\ logs' = IF out.inserted THEN logs \cup {out.log} ELSE logs
           /\ reqs' = Replace(rq, [rq EXCEPT
                   !.pc = "done", !.via = "persist", !.sched = NoRow,
                   !.next_interval = 0, !.next_dt = 0,
                   !.res = Result(out.log, out.was_idempotent)])
    /\ UNCHANGED <<sched, lock, now, fails, call, due>>

\* A store call raises (connectivity, aborted transaction).  record_review
\* has no handler, so the exception ends the request; what was committed
\* before stays, an open atomic block is rolled back and its lock released.
\* "get", "create", "locked": inside get_or_create_schedule_for_update;
\* "save": at sched.save; "persist": at the ReviewLog insert.
StorePcs == {"get", "create", "locked", "save", "persist"}

StoreFailure(rq) ==
    /\ rq.pc \in StorePcs
    /\ fails < MaxFail
    /\ fails' = fails + 1
    /\ reqs' = Replace(rq, [rq EXCEPT
            !.pc = "failed", !.err = "StoreFailure", !.created = FALSE,
            !.is_first = FALSE,
            !.sched = NoRow, !.next_interval = 0, !.next_dt = 0])
    /\ lock' = IF rq.pc = "locked" THEN [lock EXCEPT ![PairOf(rq)] = FALSE]
               ELSE lock
    /\ UNCHANGED <<sched, logs, now, call, due>>

\* The client repeats a failed request with the same body and key; the new
\* attempt runs the fast path again.
Retry(rq) ==
    /\ rq.pc = "failed"
    /\ reqs' = Replace(rq,
            FastPath([NewRequest(rq.user_id, rq.card_id, rq.rating,
                                 rq.idempotency_key)
                      EXCEPT !.attempts = rq.attempts + 1]))
    /\ UNCHANGED <<sched, logs, lock, now, fails, call, due>>

\* Concurrent reviews of one (user, card), under any keys and ratings.
Next ==
    \/ \E u \in OneUser, c \in OneCard, rating \in Ratings, key \in Keys :
          ReviewReceived(u, c, rating, key)
    \/ Tick
    \/ \E rq \in Requests : SelectForUpdate(rq)
    \/ \E rq \in Requests : CreateSchedule(rq)
    \/ \E rq \in Requests : AtomicExit(rq)
    \/ \E rq \in Requests : SaveSchedule(rq)
    \/ \E rq \in Requests : PersistReview(rq)

\* The same with a store that may fail and a client that retries.
NextFail ==
    \/ Next
    \/ \E rq \in Requests : StoreFailure(rq)
    \/ \E rq \in Requests : Retry(rq)

Spec == Init /\ [][Next]_vars

SpecFail == Init /\ [][NextFail]_vars

\* Each worker runs its request to the end: a store call that is enabled
\* (its row lock free) is eventually made.  Nothing is assumed of the
\* clients (new requests may stop coming) nor of the clock.
Fairness ==
    /\ WF_vars(\E rq \in Requests : SelectForUpdate(rq))
    /\ WF_vars(\E rq \in Requests : CreateSchedule(rq))
    /\ WF_vars(\E rq \in Requests : AtomicExit(rq))
    /\ WF_vars(\E rq \in Requests : SaveSchedule(rq))
    /\ WF_vars(\E rq \in Requests : PersistReview(rq))

\* Spec under fair scheduling of the workers, the store never failing.
SpecLive == Init /\ [][Next]_vars /\ Fairness

\* ------------------------------------- one client, one review at a time
SeqKeys == 1..MaxSeq

\* The client posts its next review once the previous one has been answered,
\* under a new key or under the key of its latest review (a replay).
SeqReviewReceived(u, c, rating, key) ==
    /\ \A rq \in Requests : rq.pc = "done"
    /\ NumRequests < MaxSeq
    /\ key \in {Cardinality(UsedKeys), Cardinality(UsedKeys) + 1}
    /\ reqs' = reqs (+) SetToBag({FastPath(NewRequest(u, c, rating, key))})
    /\ UNCHANGED <<sched, logs, lock, now, fails, call, due>>

\* Reviews of one (user, card) issued one after another; the clock is not
\* advanced (intervals and streak do not read it).
NextSeq ==
    \/ \E u \in OneUser, c \in OneCard, rating \in Ratings, key \in SeqKeys :
          SeqReviewReceived(u, c, rating, key)
    \/ \E rq \in Requests : SelectForUpdate(rq)
    \/ \E rq \in Requests : CreateSchedule(rq)
    \/ \E rq \in Requests : AtomicExit(rq)
    \/ \E rq \in Requests : SaveSchedule(rq)
    \/ \E rq \in Requests : PersistReview(rq)

SpecSeq == Init /\ [][NextSeq]_vars

\* ---------------------------------------------- scheduler/api/views.py
\* (variant: the comparison with until is strict)
list_due_strict(user_id, until) ==
    {p[2] : p \in {q \in Pairs : /\ sched[q].exists
                                 /\ q[1] = user_id
                                 /\ sched[q].next_review_at < until}}

\* (variant: the rows are not filtered by user)
list_due_any_user(user_id, until) ==
    {p[2] : p \in {q \in Pairs : /\ sched[q].exists
                                 /\ sched[q].next_review_at <= until}}

\* CardSchedule.objects.filter(user_id=user_id, next_review_at__lte=until)
\*     .values_list("card_id", flat=True): one SELECT over the committed
\* rows; a user has at most one row per card, so the list is a set.
list_due(user_id, until) ==
    {p[2] : p \in {q \in Pairs : /\ sched[q].exists
                                 /\ q[1] = user_id
                                 /\ sched[q].next_review_at <= until}}

\* the instants a client asks about: the present, and each stored
\* next_review_at with the instant before and the instant after it
Untils ==
    {now} \cup UNION {{sched[p].next_review_at - 1, sched[p].next_review_at,
                       sched[p].next_review_at + 1} :
                      p \in {q \in Pairs : sched[q].exists}}

\* every request so far has been answered
Idle == \A rq \in Requests : rq.pc = "done"

\* DueCardsView.get: GET /users/{user_id}/due-cards?until=...
DueCards(user_id, until) ==
    /\ Idle
    /\ ~due.asked
    /\ due' = [asked |-> TRUE, user_id |-> user_id, until |-> until,
               card_ids |-> list_due(user_id, until)]
    /\ UNCHANGED <<sched, logs, lock, reqs, now, fails, call>>

\* the client has read the response
DueCardsAnswered ==
    /\ due.asked
    /\ due' = NoDue
    /\ UNCHANGED <<sched, logs, lock, reqs, now, fails, call>>

\* the client posts a review of any card of any user
DueReviewReceived(u, c, rating, key) ==
    /\ Idle
    /\ ~due.asked
    /\ ReviewReceived(u, c, rating, key)

\* One client that waits for each answer before its next call: reviews of
\* any (user, card), each card under the same key, and due-cards queries,
\* while the clock advances.
NextDue ==
    \/ \E u \in Users, c \in Cards, rating \in Ratings, key \in OneKey :
          DueReviewReceived(u, c, rating, key)
    \/ Tick
    \/ \E rq \in Requests : SelectForUpdate(rq)
    \/ \E rq \in Requests : CreateSchedule(rq)
    \/ \E rq \in Requests : AtomicExit(rq)
    \/ \E rq \in Requests : SaveSchedule(rq)
    \/ \E rq \in Requests : PersistReview(rq)
    \/ \E user_id \in Users, until \in Untils : DueCards(user_id, until)
    \/ DueCardsAnswered

SpecDue == Init /\ [][NextDue]_vars

\* ------------------------------- overlapping reviews of several cards
\* Concurrent reviews of any (user, card) under any key; the clock is not
\* advanced (which rows a request touches does not depend on it).
NextPairs ==
    \/ \E u \in Users, c \in Cards, rating \in Ratings, key \in Keys :
          ReviewReceived(u, c, rating, key)
    \/ \E rq \in Requests : SelectForUpdate(rq)
    \/ \E rq \in Requests : CreateSchedule(rq)
    \/ \E rq \in Requests : AtomicExit(rq)
    \/ \E rq \in Requests : SaveSchedule(rq)
    \/ \E rq \in Requests : PersistReview(rq)

SpecPairs == Init /\ [][NextPairs]_vars

\* the same under fair scheduling of the workers
SpecPairsLive == Init /\ [][NextPairs]_vars /\ Fairness

\* ------------------------------------- schedule_next called on its own
\* the prior interval at and above which the growth of rating r is capped
CapThreshold(r) == (MAX_INTERVAL_SECONDS * 10) \div GROWTH[r]
Around(x) == (x - Margin)..(x + Margin)
\* prior intervals handed to schedule_next: the small ones, the intervals a
\* first or forgotten review stores, and those around each point where the
\* cap starts to act (the parameter is a plain int: values above the cap are
\* accepted too)
PureIntervals ==
    (0..MaxSmall) \cup {RETRY_SECONDS, FIRST_INTERVAL[1], FIRST_INTERVAL[2]}
    \cup Around(CapThreshold(1)) \cup Around(CapThreshold(2))
    \cup Around(MAX_INTERVAL_SECONDS)

InitPure ==
    /\ EmptyStore
    /\ due = NoDue
    /\ \E rating \in Ratings, L \in PureIntervals, is_first \in BOOLEAN :
          call = [rating |-> rating, last_interval_seconds |-> L,
                  is_first |-> is_first, returned |-> FALSE, ret |-> 0]

\* schedule_next(rating, last_interval_seconds, is_first) runs and returns
CallScheduleNext ==
    /\ ~call.returned
    /\ call' = [call EXCEPT
            !.returned = TRUE,
            !.ret = schedule_next(call.rating, call.last_interval_seconds,
                                  call.is_first)]
    /\ UNCHANGED <<sched, logs, lock, reqs, now, fails, due>>

NextPure == CallScheduleNext

SpecPure == InitPure /\ [][NextPure]_vars

\* ------------------------------------------------------------ properties
TripleOf(rq) == <<rq.user_id, rq.card_id, rq.idempotency_key>>
OnTriple(t) == {rq \in Requests : TripleOf(rq) = t}
OnPair(p) == {rq \in Requests : PairOf(rq) = p}
LogsOfPair(p) == {l \in logs : <<l.user_id, l.card_id>> = p}
\* every request for the pair has returned
Quiescent(p) == \A rq \in OnPair(p) : rq.pc = "done"
\* the requests of t that created the log row (was_idempotent = false, 201)
Creators(t) == {rq \in OnTriple(t) : rq.pc = "done" /\ ~rq.res.was_idempotent}
\* (last_interval_seconds, streak) after one application of the rule
ApplyRule(row, rating) ==
    [last_interval_seconds |->
        schedule_next(rating, row.last_interval_seconds,
                      row.last_interval_seconds = 0),
     streak |-> IF rating = 0 THEN 0 ELSE row.streak + 1]

\* C1: in every reachable state there is at most one ReviewLog row for each
\* (user_id, card_id, idempotency_key), also when requests carrying the same
\* key overlap.
C1_OneLogPerTriple ==
    \A l1 \in logs, l2 \in logs :
        (/\ l1.user_id = l2.user_id
         /\ l1.card_id = l2.card_id
         /\ l1.idempotency_key = l2.idempotency_key) => l1 = l2

\* C1 witness: a request went past the fast path, reached the insert while
\* another request's row for the same triple was already there, and returned.
C1_Witness ==
    \E rq \in Requests :
        /\ rq.pc = "done" /\ rq.via = "persist" /\ rq.res.was_idempotent
        /\ Cardinality(LogsOf(rq.user_id, rq.card_id, rq.idempotency_key)) = 1

\* C2 (as claimed): every request of a (user, card, key) that has ended has
\* returned a result; exactly one of them returned was_idempotent = false,
\* and every other returned was_idempotent = true with that one's
\* next_review_at and interval_seconds.
C2_OneCreatorOthersIdempotent ==
    \A rq \in Requests :
        rq.pc \in {"done", "failed"} =>
            LET creators == Creators(TripleOf(rq))
            IN  /\ rq.pc = "done"
                /\ Cardinality(creators) = 1
                /\ \A cr \in creators :
                      /\ CopiesIn(cr, reqs) = 1
                      /\ rq.res.next_review_at = cr.res.next_review_at
                      /\ rq.res.interval_seconds = cr.res.interval_seconds

\* What does hold of C2: the requests that returned agree -- one creator,
\* the others idempotent with the creator's values.
ReturnedRequestsAgree ==
    \A rq \in Requests :
        rq.pc = "done" =>
            LET creators == Creators(TripleOf(rq))
            IN  /\ Cardinality(creators) = 1
                /\ \A cr \in creators :
                      /\ CopiesIn(cr, reqs) = 1
                      /\ rq.res.next_review_at = cr.res.next_review_at
                      /\ rq.res.interval_seconds = cr.res.interval_seconds

\* C3 (as claimed): when requests with the same key for one (user, card)
\* overlap (one is found a duplicate at the insert) and they are the pair's
\* only reviews, the CardSchedule row equals one application of the rule to
\* the fresh row: the values of the single log row, and streak 0 or 1.
C3_SingleApplication ==
    \A p \in Pairs :
        (/\ Quiescent(p)
         /\ Cardinality(LogsOfPair(p)) = 1
         /\ \E rq \in OnPair(p) : rq.via = "persist" /\ rq.res.was_idempotent)
        => \A l \in LogsOfPair(p) :
              /\ sched[p].last_interval_seconds = l.next_interval_seconds
              /\ sched[p].next_review_at = l.next_review_at
              /\ sched[p].streak = ApplyRule(NoRow, l.rating).streak

\* the rule applied for each rating of a sequence in turn
RECURSIVE ApplyAll(_, _)
ApplyAll(row, ratings) ==
    IF ratings = <<>> THEN row
    ELSE ApplyAll(ApplyRule(row, Head(ratings)), Tail(ratings))

\* the total orders of a finite set, as sequences
Orders(S) ==
    {f \in [1..Cardinality(S) -> S] :
        \A i, j \in 1..Cardinality(S) : i # j => f[i] # f[j]}

\* C4 (as claimed): once concurrent requests with distinct keys for one
\* (user, card) have all returned, the row's last_interval_seconds and streak
\* are those of running the requests one after another in some order.
C4_Linearized ==
    \A p \in Pairs :
        (/\ OnPair(p) # {}
         /\ Quiescent(p)
         /\ \A rq \in OnPair(p) : CopiesIn(rq, reqs) = 1
         /\ \A r1, r2 \in OnPair(p) :
               r1 # r2 => r1.idempotency_key # r2.idempotency_key)
        => \E f \in Orders(OnPair(p)) :
              LET ratings == [i \in 1..Cardinality(OnPair(p)) |-> f[i].rating]
                  final == ApplyAll(NoRow, ratings)
              IN  /\ sched[p].last_interval_seconds = final.last_interval_seconds
                  /\ sched[p].streak = final.streak

\* C5 (as claimed): what a reader sees is atomic: a CardSchedule row that
\* reflects a review (last_interval_seconds > 0) comes with the ReviewLog row
\* holding the same next_review_at and interval, and a pair with a ReviewLog
\* row has a CardSchedule row that reflects a review.
C5_AtomicVisibility ==
    \A p \in Pairs :
        /\ sched[p].last_interval_seconds > 0 =>
              \E l \in LogsOfPair(p) :
                  /\ l.next_review_at = sched[p].next_review_at
                  /\ l.next_interval_seconds = sched[p].last_interval_seconds
        /\ LogsOfPair(p) # {} => sched[p].last_interval_seconds > 0

\* C6 (as claimed): when every request so far has failed, the store is as it
\* was before them: no CardSchedule row and no ReviewLog row.
C6_FailedLeavesNothing ==
    (/\ reqs # EmptyBag
     /\ \A rq \in Requests : rq.pc = "failed")
    => /\ \A p \in Pairs : sched[p] = NoRow
       /\ logs = {}

\* C7 (as claimed): a request that failed, was retried with the same key and
\* succeeded, being the only request for its (user, card), leaves the row as
\* one application of the rule to the fresh row.
C7_RetryExactlyOnce ==
    \A rq \in Requests :
        (/\ rq.pc = "done"
         /\ rq.attempts > 0
         /\ OnPair(PairOf(rq)) = {rq}
         /\ CopiesIn(rq, reqs) = 1)
        => /\ sched[PairOf(rq)].last_interval_seconds
                = ApplyRule(NoRow, rq.rating).last_interval_seconds
           /\ sched[PairOf(rq)].streak = ApplyRule(NoRow, rq.rating).streak

\* C8 (as claimed): no request ends with the unique-constraint conflict of
\* the CardSchedule insert; the conflict is recovered inside the store call.
C8_CreateConflictRecovered ==
    \A rq \in Requests : rq.err # "IntegrityError"

\* the requests that arrive in a step: a new request, or the new attempt of
\* a failed one
Arrived ==
    {rq \in BagToSet(reqs') :
        /\ CopiesIn(rq, reqs') > CopiesIn(rq, reqs)
        /\ \/ BagCardinality(reqs') = BagCardinality(reqs) + 1
           \/ \E old \in Requests :
                 /\ old.pc = "failed"
                 /\ CopiesIn(old, reqs') < CopiesIn(old, reqs)}

\* C9: a request that arrives when its (user, card, key) already has a
\* ReviewLog row returns at once (was_idempotent = true) and leaves the
\* CardSchedule table and the ReviewLog table as they were.
C9_ReplayIsPureRead ==
    [][\A rq \in Arrived :
          LogsOf(rq.user_id, rq.card_id, rq.idempotency_key) # {}
          => /\ rq.pc = "done"
             /\ rq.res.was_idempotent
             /\ sched' = sched
             /\ logs' = logs]_vars

\* C9 witness: a replay of a committed key has returned through the fast path.
C9_Witness ==
    \E rq \in Requests :
        /\ rq.pc = "done" /\ rq.via = "fast"
        /\ sched[PairOf(rq)].last_interval_seconds > 0

\* C10: a replay of a committed (user, card, key) returns the next_review_at
\* and interval_seconds stored in the ReviewLog row, whatever its rating.
C10_ReplayReturnsStored ==
    \A rq \in Requests :
        (rq.pc = "done" /\ rq.via = "fast") =>
            \E l \in LogsOf(rq.user_id, rq.card_id, rq.idempotency_key) :
                /\ rq.res.next_review_at = l.next_review_at
                /\ rq.res.interval_seconds = l.next_interval_seconds
                /\ rq.res.was_idempotent

\* C10 witness: a replay with another rating than the stored one returned the
\* stored values, which differ from what its own rating would give.
C10_Witness ==
    \E rq \in Requests :
        /\ rq.pc = "done" /\ rq.via = "fast"
        /\ \E l \in LogsOf(rq.user_id, rq.card_id, rq.idempotency_key) :
              /\ l.rating # rq.rating
              /\ rq.res.interval_seconds = l.next_interval_seconds
              /\ rq.res.interval_seconds
                    # schedule_next(rq.rating, 0, TRUE)

\* C11: schedule_next with rating 0 returns 60 for every prior interval and
\* either value of is_first.
C11_ForgottenReturnsRetry ==
    (call.returned /\ call.rating = 0) => call.ret = 60

\* C11 witness: a rating-0 call on a long prior interval, not a first review,
\* has returned.
C11_Witness ==
    /\ call.returned /\ call.rating = 0 /\ ~call.is_first
    /\ call.last_interval_seconds > FIRST_INTERVAL[2]

\* what C11 gives the service: a request with rating 0 that recorded its
\* review returned interval_seconds = 60
RatingZeroReturns60 ==
    \A rq \in Requests :
        (rq.pc = "done" /\ ~rq.res.was_idempotent /\ rq.rating = 0)
        => rq.res.interval_seconds = 60

\* the ReviewLog row of a request's (user, card, key)
LogOf(rq) ==
    get_existing_idempotent(rq.user_id, rq.card_id, rq.idempotency_key)
\* the requests that recorded a review (returned was_idempotent = false)
Recorded(p) == {rq \in OnPair(p) : rq.pc = "done" /\ ~rq.res.was_idempotent}
\* the first review recorded for a pair
IsFirstReview(rq) ==
    LET own == LogOf(rq).id
    IN  \A l \in logs : <<l.user_id, l.card_id>> = PairOf(rq) => own <= l.id

\* C12: the first review of a never-reviewed (user, card) with rating 1
\* returns 86400 seconds and with rating 2 returns 345600 seconds, which is
\* min(FIRST_INTERVAL[r], MAX_INTERVAL_SECONDS).
C12_FirstReviewInterval ==
    \A rq \in Requests :
        (/\ rq.pc = "done" /\ ~rq.res.was_idempotent
         /\ rq.rating \in {1, 2} /\ IsFirstReview(rq))
        => /\ rq.res.interval_seconds
                = (IF rq.rating = 1 THEN 86400 ELSE 345600)
           /\ rq.res.interval_seconds
                = Min(FIRST_INTERVAL[rq.rating], MAX_INTERVAL_SECONDS)

\* C12 witness: a first review with rating 2 has returned, and a later
\* review of the same card has been recorded too.
C12_Witness ==
    \E p \in Pairs : \E rq \in Recorded(p) :
        /\ rq.rating = 2 /\ IsFirstReview(rq)
        /\ Cardinality(LogsOfPair(p)) > 1

\* the first-review branch of schedule_next on its own
FirstBranchReturnsFirstInterval ==
    (call.returned /\ call.rating \in {1, 2} /\ call.is_first)
    => call.ret = Min(FIRST_INTERVAL[call.rating], MAX_INTERVAL_SECONDS)

\* C13 (as claimed): for every L > 0 and r in {1, 2}, schedule_next(r, L,
\* false) is at least L and at most MAX_INTERVAL_SECONDS.
C13_GrowthWithinCap ==
    (/\ call.returned /\ call.rating \in {1, 2} /\ ~call.is_first
     /\ call.last_interval_seconds > 0)
    => /\ call.ret >= call.last_interval_seconds
       /\ call.ret <= MAX_INTERVAL_SECONDS

\* C13 (amended): for every L > 0 and r in {1, 2}, schedule_next(r, L, false)
\* is at least L, and it is at most MAX_INTERVAL_SECONDS when L is.
C13_GrowthWithinCapFromCapped ==
    (/\ call.returned /\ call.rating \in {1, 2} /\ ~call.is_first
     /\ call.last_interval_seconds > 0)
    => /\ call.ret >= call.last_interval_seconds
       /\ call.last_interval_seconds <= MAX_INTERVAL_SECONDS
              => call.ret <= MAX_INTERVAL_SECONDS

\* C13 witness: a prior interval below the cap whose growth exceeds the cap
\* came back as the cap.
C13_Witness ==
    /\ call.returned /\ call.rating \in {1, 2} /\ ~call.is_first
    /\ call.last_interval_seconds < MAX_INTERVAL_SECONDS
    /\ (call.last_interval_seconds * GROWTH[call.rating]) \div 10
          > MAX_INTERVAL_SECONDS
    /\ call.ret = MAX_INTERVAL_SECONDS

\* C14: when every review of a (user, card) has rating 1 or 2 and the
\* reviews are issued one after another under distinct keys, the returned
\* interval_seconds never decreases from one recorded review to the next.
C14_IntervalsNonDecreasing ==
    \A r1 \in Requests :
        (/\ r1.pc = "done" /\ ~r1.res.was_idempotent
         /\ \A rq \in OnPair(PairOf(r1)) : rq.rating \in {1, 2})
        => \A r2 \in Recorded(PairOf(r1)) :
              LogOf(r1).id < LogOf(r2).id
              => r1.res.interval_seconds <= r2.res.interval_seconds

\* C14 witness: a rating-2 review followed by a rating-1 review and a third
\* one, all recorded, with growing intervals.
C14_Witness ==
    \E p \in Pairs : \E r1, r2, r3 \in Recorded(p) :
        /\ \A rq \in OnPair(p) : rq.rating \in {1, 2}
        /\ LogOf(r1).id < LogOf(r2).id /\ LogOf(r2).id < LogOf(r3).id
        /\ r1.rating = 2 /\ r2.rating = 1
        /\ r1.res.interval_seconds < r2.res.interval_seconds
        /\ r2.res.interval_seconds < r3.res.interval_seconds

\* C15: in every reachable state every CardSchedule row has
\* last_interval_seconds <= MAX_INTERVAL_SECONDS (365*24*3600), and so has
\* every interval_seconds returned by record_review.
C15_IntervalCapped ==
    /\ \A p \in Pairs : sched[p].last_interval_seconds <= 365 * 24 * 3600
    /\ \A rq \in Requests :
          rq.pc = "done" => rq.res.interval_seconds <= 365 * 24 * 3600

\* C15 witness: a review whose growth exceeded the cap was recorded; the row
\* and the returned interval are the cap.
C15_Witness ==
    \E p \in Pairs : \E rq \in Recorded(p) :
        /\ sched[p].last_interval_seconds = MAX_INTERVAL_SECONDS
        /\ rq.res.interval_seconds = MAX_INTERVAL_SECONDS
        /\ \E l \in LogsOfPair(p) :
              /\ l.id + 1 = LogOf(rq).id
              /\ l.next_interval_seconds < MAX_INTERVAL_SECONDS

\* the ReviewLog rows of a pair whose ids are 1..n, as the sequence of rows
LogSeq(p) == [i \in 1..Cardinality(LogsOfPair(p)) |->
                 CHOOSE l \in LogsOfPair(p) : l.id = i]

\* C17: a review with rating r in {1, 2} recorded after a review that left
\* the interval L > 0 gets max(min(floor(L * GROWTH[r]), MAX_INTERVAL_SECONDS),
\* L) with GROWTH[1] = 1.6 and GROWTH[2] = 2.5; the ratings 1, 2, 1, 2 on a
\* fresh card give 86400, 216000, 345600, 864000.
C17_GrowthFormula ==
    /\ \A m \in logs :
          m.rating \in {1, 2} =>
             \A l \in logs :
                (/\ <<l.user_id, l.card_id>> = <<m.user_id, m.card_id>>
                 /\ m.id = l.id + 1
                 /\ l.next_interval_seconds > 0)
                => LET L == l.next_interval_seconds
                       floored == IF m.rating = 1 THEN (L * 16) \div 10
                                  ELSE (L * 25) \div 10
                   IN  m.next_interval_seconds
                          = Max(Min(floored, 365 * 24 * 3600), L)
    /\ \A rq \in Requests :
          (rq.pc = "done" /\ ~rq.res.was_idempotent) =>
             LET n == LogOf(rq).id
             IN  (/\ n <= 4
                  /\ \A l \in LogsOfPair(PairOf(rq)) :
                        l.id <= n => l.rating = <<1, 2, 1, 2>>[l.id])
                 => rq.res.interval_seconds
                       = <<86400, 216000, 345600, 864000>>[n]

\* C17 witness: the four reviews 1, 2, 1, 2 have been recorded on a fresh
\* card.
C17_Witness ==
    \E p \in Pairs :
        /\ Cardinality(LogsOfPair(p)) >= 4
        /\ \A i \in 1..4 : LogSeq(p)[i].rating = <<1, 2, 1, 2>>[i]
        /\ sched[p].last_interval_seconds >= 864000

\* the truncating case of C17 is reached too: a product with a fractional part was truncated
\* (96 * 1.6 = 153.6 stored as 153).
TruncationReached ==
    \E l \in logs : l.next_interval_seconds = 153

\* C16: a due-cards query for (user_id, until) returns exactly the card ids
\* of that user's CardSchedule rows with next_review_at <= until, the empty
\* list for a user without rows, and leaves both tables as they were.
C16_DueCardsExact ==
    [][(due'.asked /\ ~due.asked) =>
          LET u == due'.user_id
          IN  /\ \A c \in Cards :
                    c \in due'.card_ids
                    <=> /\ sched[<<u, c>>].exists
                        /\ sched[<<u, c>>].next_review_at <= due'.until
              /\ (\A c \in Cards : ~sched[<<u, c>>].exists)
                    => due'.card_ids = {}
              /\ sched' = sched
              /\ logs' = logs]_vars

\* C16 witness: a query was answered with a card that falls due exactly at
\* until, while another user's card, due by then too, was left out.
C16_Witness ==
    /\ due.asked
    /\ \E c \in due.card_ids :
          sched[<<due.user_id, c>>].next_review_at = due.until
    /\ \E p \in Pairs :
          /\ p[1] # due.user_id
          /\ sched[p].exists
          /\ sched[p].next_review_at <= due.until
          /\ p[2] \notin due.card_ids

\* further cases of C16 that are reached: a user without rows got the empty
\* list; a card of the asking user due later than until was left out
EmptyAnswerReached ==
    /\ due.asked /\ due.card_ids = {}
    /\ \A c \in Cards : ~sched[<<due.user_id, c>>].exists
    /\ \E p \in Pairs : sched[p].exists /\ sched[p].next_review_at <= due.until
LaterCardLeftOut ==
    /\ due.asked /\ due.card_ids # {}
    /\ \E c \in Cards :
          /\ sched[<<due.user_id, c>>].exists
          /\ sched[<<due.user_id, c>>].next_review_at > due.until

\* the recorded reviews of a pair since its most recent rating-0 review
\* (rows are recorded in the order of their ids)
SinceLastForgotten(p) ==
    {l \in LogsOfPair(p) :
        /\ l.rating # 0
        /\ \A m \in LogsOfPair(p) : m.rating = 0 => m.id < l.id}

\* C18 (as claimed): once the reviews of a (user, card) have returned, the
\* row's streak is the number of ReviewLog rows with a non-zero rating
\* recorded since the pair's most recent rating-0 row (0 right after a
\* rating-0 review, one more per recorded non-zero review).
C18_StreakCountsRecorded ==
    \A p \in Pairs :
        (sched[p].exists /\ Quiescent(p))
        => sched[p].streak = Cardinality(SinceLastForgotten(p))

\* the case of C18 with a reset followed by growth: reached one review at a
\* time
StreakResetThenGrown ==
    \E p \in Pairs :
        /\ Quiescent(p) /\ sched[p].streak = 2
        /\ \E l \in LogsOfPair(p) : l.rating = 0 /\ l.id > 1

\* the most recent ReviewLog rows of a pair (latest created_at)
MostRecent(p) ==
    {l \in LogsOfPair(p) : \A m \in LogsOfPair(p) : m.created_at <= l.created_at}

\* C19 (as claimed): once the reviews of a (user, card) have returned, a row
\* with last_interval_seconds > 0 has next_review_at = created_at of the
\* pair's most recent ReviewLog row + last_interval_seconds.
C19_NextReviewFromCreatedAt ==
    \A p \in Pairs :
        (Quiescent(p) /\ sched[p].last_interval_seconds > 0)
        => \E l \in MostRecent(p) :
              \A m \in MostRecent(p) :
                 /\ m.id <= l.id
                 /\ sched[p].next_review_at
                       = l.created_at + sched[p].last_interval_seconds

\* C20: a ReviewLog row, once inserted, is never changed and never deleted
\* by any later step, and its next_review_at and next_interval_seconds are
\* the values returned to the client by the request that inserted it.
C20_LogAppendOnly ==
    [][/\ logs \subseteq logs'
       /\ \A rq \in BagToSet(reqs') :
             (rq.pc = "done" /\ ~rq.res.was_idempotent)
             => \E l \in logs' :
                   /\ <<l.user_id, l.card_id, l.idempotency_key>> = TripleOf(rq)
                   /\ l.next_review_at = rq.res.next_review_at
                   /\ l.next_interval_seconds = rq.res.interval_seconds]_vars

\* C20 witness: a request with the key of a stored row and another rating
\* reached the insert, was answered as a duplicate, and the row still holds
\* the rating and the values of the request that inserted it.
C20_Witness ==
    \E rq \in Requests :
        /\ rq.pc = "done" /\ rq.via = "persist" /\ rq.res.was_idempotent
        /\ LogOf(rq).rating # rq.rating
        /\ \E cr \in Creators(TripleOf(rq)) :
              /\ LogOf(rq).rating = cr.rating
              /\ LogOf(rq).next_interval_seconds = cr.res.interval_seconds

\* the requests of a pair that have saved their mutation of the row
Applied(p) ==
    {rq \in OnPair(p) : rq.pc = "persist" \/ (rq.pc = "done" /\ rq.via = "persist")}
\* how many requests of a pair took the first-interval branch of
\* schedule_next (rating 1 or 2 with is_first true)
FirstRuleUses(p) ==
    LET users == {rq \in OnPair(p) : rq.is_first /\ rq.rating \in {1, 2}}
        RECURSIVE Sum(_)
        Sum(S) == IF S = {} THEN 0
                  ELSE LET x == CHOOSE y \in S : TRUE
                       IN  CopiesIn(x, reqs) + Sum(S \ {x})
    IN  Sum(users)

\* C21 (as claimed): a row to which a review has been applied has
\* last_interval_seconds >= 60; the first-interval rule is used at most once
\* per (user, card); and a recorded review with rating 1 or 2 that follows a
\* recorded rating-0 review returns 96 (rating 1) or 150 (rating 2), not
\* FIRST_INTERVAL[r].
C21_FirstRuleOnce ==
    \A p \in Pairs :
        /\ Applied(p) # {} => sched[p].last_interval_seconds >= 60
        /\ FirstRuleUses(p) <= 1
        /\ \A rq \in Recorded(p) :
              (/\ rq.rating \in {1, 2}
               /\ \E l \in LogsOfPair(p) :
                     l.id + 1 = LogOf(rq).id /\ l.rating = 0)
              => rq.res.interval_seconds = (IF rq.rating = 1 THEN 96 ELSE 150)

\* the part of C21 that no interleaving breaks: once a review has been
\* applied to a row, its last_interval_seconds is at least 60
AppliedRowAtLeastRetry ==
    \A p \in Pairs : Applied(p) # {} => sched[p].last_interval_seconds >= 60

\* the case of C21 reached one review at a time: a rating-2 review recorded
\* right after a rating-0 review returned 150
GrowthAfterForgottenReached ==
    \E p \in Pairs : \E rq \in Recorded(p) :
        /\ rq.rating = 2 /\ rq.res.interval_seconds = 150 /\ ~rq.is_first
        /\ \E l \in LogsOfPair(p) : l.id + 1 = LogOf(rq).id /\ l.rating = 0

\* the requests that take a step of record_review in this step
Moved == {rq \in Requests : CopiesIn(rq, reqs') < CopiesIn(rq, reqs)}

\* C22: a step of a request for one (user, card) leaves the CardSchedule
\* row and the ReviewLog rows of every other pair as they were, and a
\* request is answered as idempotent only from a row of its own (user, card,
\* key), also when its key is in use on another pair.
C22_OtherPairsUntouched ==
    [][/\ \A p \in Pairs :
             (sched'[p] # sched[p] \/ LogsOfPair(p)' # LogsOfPair(p))
             => \E rq \in Moved : PairOf(rq) = p
       /\ \A rq \in Arrived \cup BagToSet(reqs') :
             (rq.pc = "done" /\ rq.res.was_idempotent)
             => \E l \in logs' :
                   /\ l.user_id = rq.user_id /\ l.card_id = rq.card_id
                   /\ l.idempotency_key = rq.idempotency_key
                   /\ l.next_review_at = rq.res.next_review_at
                   /\ l.next_interval_seconds = rq.res.interval_seconds]_vars

\* C22 witness: two pairs were reviewed under the same key with different
\* ratings; each request recorded its own row (was_idempotent = false) and
\* each pair's row holds its own review.
C22_Witness ==
    \E r1, r2 \in Requests :
        /\ PairOf(r1) # PairOf(r2)
        /\ r1.idempotency_key = r2.idempotency_key
        /\ r1.rating = 0 /\ r2.rating = 2
        /\ r1.pc = "done" /\ ~r1.res.was_idempotent
        /\ r2.pc = "done" /\ ~r2.res.was_idempotent
        /\ sched[PairOf(r1)].last_interval_seconds = 60
        /\ sched[PairOf(r2)].last_interval_seconds = 345600
        /\ Cardinality(LogsOfPair(PairOf(r1))) = 1
        /\ Cardinality(LogsOfPair(PairOf(r2))) = 1

\* some request has not ended / every request has returned a result /
\* every request has ended, with a result or with an exception
Pending == \E rq \in Requests : rq.pc \notin {"done", "failed"}
AllReturned == \A rq \in Requests : rq.pc = "done"
AllEnded == \A rq \in Requests : rq.pc \in {"done", "failed"}

\* C23 (as claimed): under fair scheduling and a store that does not fail,
\* whenever requests are in flight, eventually every request has returned a
\* result.
C23_EveryRequestReturns == Pending ~> AllReturned

\* the part of C23 that holds: no request waits for ever; whenever requests
\* are in flight, eventually every request has ended (a request waiting for
\* the row lock gets it, and no set of requests deadlocks)
NoRequestWaitsForever == Pending ~> AllEnded
====
